---- MODULE Spec2Model ----
(***************************************************************************)
(* Model of src/hf_dataset/join_fcc.py: the FCC broadband join.            *)
(*                                                                         *)
(*   main: load_tract_zcta_map, then process_fcc_file for cable, fiber and *)
(*   copper (chunk by chunk), then aggregate_by_zcta, then join_and_save   *)
(*   (read the base CSV, drop fcc_ columns, left merge, reorder, write).   *)
(*                                                                         *)
(* Texts (CSV cells, ZIP keys, column values read as str) are sequences of *)
(* one-character strings; a word such as "Bronx" stands for one opaque     *)
(* letter.  The empty text <<>> is the empty CSV cell, which pandas reads  *)
(* as NaN.  A nullable Int32 is <<>> (pd.NA) or <<v>>.  A block_geoid is   *)
(* its three segments <<chars 1-5, chars 6-11, chars 12-15>>, or <<>>.     *)
(***************************************************************************)
EXTENDS Integers, Sequences, FiniteSets, TLC

\* ------------------------------------------------------------------ bounds

\* rows over the three technology files of one input
MaxRows == 3
\* largest chunksize tried (CHUNK_SIZE of the source, scaled down)
MaxChunk == 3
\* rows of the base dataset file
MaxBaseRows == 2
\* invocations of main in one behaviour
MaxRuns == 2

\* --------------------------------------------------------------- constants

\* join_and_save: base["zipcode"].str.zfill(5)
ZipWidth == 5

NaN == <<>>

\* mutant: the files taken in alphabetical order
FCC_FILES_Sorted == <<"cable", "copper", "fiber">>

\* FCC_FILES, in dict order
FCC_FILES == <<"cable", "fiber", "copper">>

Tech == {"cable", "fiber", "copper"}

\* the technology loop of aggregate_by_zcta
AggTechs == <<"cable", "fiber", "copper">>

NYC_COUNTY_PREFIXES == {"36005", "36047", "36061", "36081", "36085"}

\* ----------------------------------------------------------------- helpers

Range(s) == {s[i] : i \in 1..Len(s)}

SeqsUpTo(S, n) == UNION {[1..k -> S] : k \in 0..n}

RECURSIVE SelectSeqBy(_, _)
\* the subsequence of s whose elements are in the set keep
SelectSeqBy(s, keep) ==
    IF s = <<>> THEN <<>>
    ELSE IF Head(s) \in keep THEN <<Head(s)>> \o SelectSeqBy(Tail(s), keep)
    ELSE SelectSeqBy(Tail(s), keep)

RECURSIVE Concat(_)
\* pd.concat of a list of row lists, ignore_index=True
Concat(ss) == IF ss = <<>> THEN <<>> ELSE Head(ss) \o Concat(Tail(ss))

DigitChars == <<"0", "1", "2", "3", "4", "5", "6", "7", "8", "9">>

IsDigit(c) == c \in Range(DigitChars)

\* code point order of the characters used in keys
CharOrd(c) == IF IsDigit(c) THEN CHOOSE i \in 1..10 : DigitChars[i] = c ELSE 11

RECURSIVE StrLess(_, _)
\* Python's < on str
StrLess(a, b) ==
    IF b = <<>> THEN FALSE
    ELSE IF a = <<>> THEN TRUE
    ELSE IF Head(a) = Head(b) THEN StrLess(Tail(a), Tail(b))
    ELSE CharOrd(Head(a)) < CharOrd(Head(b))

RECURSIVE SortedKeys(_)
\* the elements of a set of texts in ascending order
SortedKeys(S) ==
    IF S = {} THEN <<>>
    ELSE LET m == CHOOSE x \in S : \A y \in S \ {x} : StrLess(x, y)
         IN <<m>> \o SortedKeys(S \ {m})

\* ------------------------------------------------------- process_fcc_file

\* chunk["block_geoid"].str[:5]; a null block has no prefix
county_prefix(block) == IF block = NaN THEN "" ELSE block[1]

\* nyc["block_geoid"].str[:11]
tract(block) == IF block = NaN THEN NaN ELSE <<block[1], block[2]>>

\* mutant: the county filter left out
NycFilter_NoFilter(chunk) == chunk

\* chunk[chunk["county_prefix"].isin(NYC_COUNTY_PREFIXES)]
NycFilter(chunk) ==
    SelectSeqBy(chunk, {r \in Range(chunk) : county_prefix(r.block_geoid) \in NYC_COUNTY_PREFIXES})

\* Series.map(tract_map) on one value: NaN when the key is not in the dict
MapZip(t, tract_map) == IF t \in DOMAIN tract_map THEN tract_map[t] ELSE NaN

\* nyc["zipcode"] = nyc["tract"].map(tract_map), with the columns kept
\* later; index is the row's position in the file, which a chunk carries
WithZip(nyc, tract_map) ==
    [i \in 1..Len(nyc) |->
        [index       |-> nyc[i].index,
         zipcode     |-> MapZip(tract(nyc[i].block_geoid), tract_map),
         brand_name  |-> nyc[i].brand_name,
         location_id |-> nyc[i].location_id,
         dl          |-> nyc[i].dl,
         ul          |-> nyc[i].ul]]

\* mutant: rows without a ZIP are kept
DropNa_KeepAll(rows) == rows

\* nyc.dropna(subset=["zipcode"])
DropNa(rows) == SelectSeqBy(rows, {r \in Range(rows) : r.zipcode # NaN})

\* mutant: the copper rows are labelled "dsl"
WithTech_Dsl(rows, tech_label) ==
    [i \in 1..Len(rows) |->
        [index       |-> rows[i].index,
         zipcode     |-> rows[i].zipcode,
         brand_name  |-> rows[i].brand_name,
         location_id |-> rows[i].location_id,
         dl          |-> rows[i].dl,
         ul          |-> rows[i].ul,
         tech        |-> IF tech_label = "copper" THEN "dsl" ELSE tech_label]]

\* nyc["tech"] = tech_label
WithTech(rows, tech_label) ==
    [i \in 1..Len(rows) |->
        [index       |-> rows[i].index,
         zipcode     |-> rows[i].zipcode,
         brand_name  |-> rows[i].brand_name,
         location_id |-> rows[i].location_id,
         dl          |-> rows[i].dl,
         ul          |-> rows[i].ul,
         tech        |-> tech_label]]

\* mutant: mapped_rows counted before the rows without a ZIP are dropped
ProcessChunk_CountBeforeDrop(st, chunk, tech_label, tract_map) ==
    LET nyc    == NycFilter(chunk)
        mapped == DropNa(WithZip(nyc, tract_map))
    IN  IF nyc = <<>>
        THEN [st EXCEPT !.total_rows = @ + Len(chunk)]
        ELSE [chunks      |-> Append(st.chunks, WithTech(mapped, tech_label)),
              total_rows  |-> st.total_rows + Len(chunk),
              nyc_rows    |-> st.nyc_rows + Len(nyc),
              mapped_rows |-> st.mapped_rows + Len(nyc)]

\* mutant: chunks = [nyc] in place of chunks.append(nyc)
ProcessChunk_KeepLast(st, chunk, tech_label, tract_map) ==
    LET nyc    == NycFilter(chunk)
        mapped == DropNa(WithZip(nyc, tract_map))
    IN  IF nyc = <<>>
        THEN [st EXCEPT !.total_rows = @ + Len(chunk)]
        ELSE [chunks      |-> <<WithTech(mapped, tech_label)>>,
              total_rows  |-> st.total_rows + Len(chunk),
              nyc_rows    |-> st.nyc_rows + Len(nyc),
              mapped_rows |-> st.mapped_rows + Len(mapped)]

\* One iteration of the chunk loop on reader state st =
\* [chunks, total_rows, nyc_rows, mapped_rows]; `continue` when nyc is empty.
ProcessChunk(st, chunk, tech_label, tract_map) ==
    LET nyc    == NycFilter(chunk)
        mapped == DropNa(WithZip(nyc, tract_map))
    IN  IF nyc = <<>>
        THEN [st EXCEPT !.total_rows = @ + Len(chunk)]
        ELSE [chunks      |-> Append(st.chunks, WithTech(mapped, tech_label)),
              total_rows  |-> st.total_rows + Len(chunk),
              nyc_rows    |-> st.nyc_rows + Len(nyc),
              mapped_rows |-> st.mapped_rows + Len(mapped)]

NewReader == [chunks |-> <<>>, total_rows |-> 0, nyc_rows |-> 0, mapped_rows |-> 0]

\* ignore_index=True: the rows lose the index they had in the file
ResetIndex(rows) ==
    [i \in 1..Len(rows) |->
        [zipcode     |-> rows[i].zipcode,
         brand_name  |-> rows[i].brand_name,
         location_id |-> rows[i].location_id,
         dl          |-> rows[i].dl,
         ul          |-> rows[i].ul,
         tech        |-> rows[i].tech]]

\* The return value: pd.DataFrame() (no columns) when no chunk was kept,
\* else the concatenation, which carries the six columns even when empty.
FileResult(st) ==
    IF st.chunks = <<>> THEN [hasCols |-> FALSE, rows |-> <<>>]
    ELSE [hasCols |-> TRUE, rows |-> ResetIndex(Concat(st.chunks))]

\* mutant: no result counts as empty
DfEmpty_Never(df) == FALSE

\* df.empty
DfEmpty(df) == df.rows = <<>>

\* the rows pandas hands out as the next chunk of a reader at position
\* pos, each with its index in the file (from 0)
NextChunk(rows, pos, chunksize) ==
    LET last == IF pos + chunksize < Len(rows) THEN pos + chunksize ELSE Len(rows)
    IN [i \in 1..(last - pos) |->
          [index       |-> pos + i - 1,
           brand_name  |-> rows[pos + i].brand_name,
           location_id |-> rows[pos + i].location_id,
           dl          |-> rows[pos + i].dl,
           ul          |-> rows[pos + i].ul,
           block_geoid |-> rows[pos + i].block_geoid]]

\* ------------------------------------------------------ aggregate_by_zcta

\* mutant: one group per row
GroupKeys_PerRow(rows) == [i \in 1..Len(rows) |-> rows[i].zipcode]

\* groupby("zipcode"): the groups' keys, sorted, null keys left out
GroupKeys(rows) == SortedKeys({r.zipcode : r \in Range(rows)} \ {NaN})

Group(rows, z) == {r \in Range(rows) : r.zipcode = z}

\* "nunique": distinct non-null values
NUnique(vals) == Cardinality(vals \ {NaN})

\* mutant: the nulls filled with 0 before the max
NullableMax_ZeroFill(vals) ==
    LET filled == {IF v = NaN THEN 0 ELSE v[1] : v \in vals}
    IN <<CHOOSE m \in filled : \A x \in filled : x <= m>>

\* "max" of a nullable Int32 column: nulls skipped, pd.NA when none is left
NullableMax(vals) ==
    LET present == {v[1] : v \in vals \ {NaN}}
    IN  IF present = {} THEN NaN
        ELSE <<CHOOSE m \in present : \A x \in present : x <= m>>

\* mutant: only rows with a brand name make a technology available
zips_with_tech_Branded(rows, tech) ==
    {r.zipcode : r \in {q \in Range(rows) : q.tech = tech /\ q.brand_name # NaN}}

\* df[df["tech"] == tech]["zipcode"].unique()
zips_with_tech(rows, tech) == {r.zipcode : r \in {q \in Range(rows) : q.tech = tech}}

\* agg[col] = agg["zipcode"].isin(zips_with_tech), for each tech of the loop
AvailFlags(rows, z) ==
    [t \in Range(AggTechs) |-> z \in zips_with_tech(rows, t)]

\* mutant: "count" in place of "nunique"
AggRecord_Count(rows, z) ==
    LET g == Group(rows, z)
        n == Cardinality({j \in 1..Len(rows) : rows[j].zipcode = z})
    IN [zipcode            |-> z,
        fcc_isp_count      |-> n,
        fcc_max_dl_mbps    |-> NullableMax({r.dl : r \in g}),
        fcc_max_ul_mbps    |-> NullableMax({r.ul : r \in g}),
        fcc_location_count |-> n,
        avail              |-> [t \in Range(AggTechs) |-> z \in {r.zipcode : r \in {q \in Range(rows) : q.tech = t}}]]

AggRecord(rows, z) ==
    LET g == Group(rows, z)
    IN [zipcode            |-> z,
        fcc_isp_count      |-> NUnique({r.brand_name : r \in g}),
        fcc_max_dl_mbps    |-> NullableMax({r.dl : r \in g}),
        fcc_max_ul_mbps    |-> NullableMax({r.ul : r \in g}),
        fcc_location_count |-> NUnique({r.location_id : r \in g}),
        avail              |-> AvailFlags(rows, z)]

\* the aggregate: one record per group key, in key order; a frame without
\* a zipcode column makes groupby raise KeyError
aggregate_by_zcta(df) ==
    IF ~df.hasCols THEN [err |-> TRUE, recs |-> <<>>]
    ELSE LET keys == GroupKeys(df.rows)
         IN [err |-> FALSE, recs |-> [i \in 1..Len(keys) |-> AggRecord(df.rows, keys[i])]]

\* ------------------------------------------------------------ CSV texts

\* a column name, split after its fourth character: "fcc_isp_count" is
\* <<"fcc_", "isp_count">>, so that startswith("fcc_") reads the first part
ZIPCODE      == <<"zipc", "ode">>
BOROUGH      == <<"boro", "ugh">>
NEIGHBORHOOD == <<"neig", "hborhood">>
UTILITY      == <<"util", "ity_name">>
\* insert_after
insert_after == <<"cens", "us_no_internet_pct">>

FCC_ISP      == <<"fcc_", "isp_count">>
FCC_DL       == <<"fcc_", "max_dl_mbps">>
FCC_UL       == <<"fcc_", "max_ul_mbps">>
FCC_LOC      == <<"fcc_", "location_count">>
FccAvail(t)  == <<"fcc_", t, "_available">>
\* a column no aggregate has
FCC_LEGACY   == <<"fcc_", "provider_note">>

\* c.startswith("fcc_")
StartsWithFcc(c) == c[1] = "fcc_"

\* the columns of the frame aggregate_by_zcta returns, after zipcode
AggCols ==
    <<FCC_ISP, FCC_DL, FCC_UL, FCC_LOC>> \o [i \in 1..Len(AggTechs) |-> FccAvail(AggTechs[i])]

NaNCell == [t |-> "nan", n |-> 0, s |-> <<>>]
IntCell(n) == [t |-> "int", n |-> n, s |-> <<>>]
\* a float64 holding n tenths
FloatCell(n) == [t |-> "float", n |-> n, s |-> <<>>]
StrCell(s) == [t |-> "str", n |-> 0, s |-> s]
BoolCell(b) == [t |-> "bool", n |-> IF b THEN 1 ELSE 0, s |-> <<>>]

\* a nullable Int32 as a cell
Int32Cell(v) == IF v = NaN THEN NaNCell ELSE IntCell(v[1])

IsIntLit(s) == s # <<>> /\ \A i \in 1..Len(s) : IsDigit(s[i])

\* digits "." digit: the float literals of the model have one decimal
IsFloatLit(s) ==
    /\ Len(s) >= 3
    /\ s[Len(s) - 1] = "."
    /\ IsDigit(s[Len(s)])
    /\ \A i \in 1..(Len(s) - 2) : IsDigit(s[i])

DigitVal(c) == (CHOOSE i \in 1..10 : DigitChars[i] = c) - 1

RECURSIVE IntVal(_)
\* the value of a digit string; leading zeros do not count
IntVal(s) == IF s = <<>> THEN 0 ELSE 10 * IntVal(SubSeq(s, 1, Len(s) - 1)) + DigitVal(s[Len(s)])

\* the value of a numeric literal, in tenths
TenthsVal(s) ==
    IF IsIntLit(s) THEN 10 * IntVal(s)
    ELSE 10 * IntVal(SubSeq(s, 1, Len(s) - 2)) + DigitVal(s[Len(s)])

RECURSIVE ToDigits(_)
\* str(n) for n >= 0
ToDigits(n) ==
    IF n < 10 THEN <<DigitChars[n + 1]>>
    ELSE ToDigits(n \div 10) \o <<DigitChars[(n % 10) + 1]>>

\* mutant: floats written with an integer format
CellText_Truncate(c) ==
    CASE c.t = "int"   -> ToDigits(c.n)
      [] c.t = "float" -> ToDigits(c.n \div 10)
      [] c.t = "str"   -> c.s
      [] c.t = "bool"  -> IF c.n = 1 THEN <<"True">> ELSE <<"False">>
      [] OTHER         -> <<>>

\* what to_csv writes for a cell
CellText(c) ==
    CASE c.t = "int"   -> ToDigits(c.n)
      [] c.t = "float" -> ToDigits(c.n \div 10) \o <<".">> \o <<DigitChars[(c.n % 10) + 1]>>
      [] c.t = "str"   -> c.s
      [] c.t = "bool"  -> IF c.n = 1 THEN <<"True">> ELSE <<"False">>
      [] OTHER         -> <<>>

\* read_csv's type inference for one column: int64 when every cell is an
\* integer literal, float64 when every cell is numeric or empty, else object
ColumnType(texts) ==
    IF texts # {} /\ \A s \in texts : IsIntLit(s) THEN "int"
    ELSE IF \A s \in texts : s = <<>> \/ IsIntLit(s) \/ IsFloatLit(s) THEN "float"
    ELSE "object"

\* a cell as read_csv parses it; dtype str for the key column
ParseCell(s, type) ==
    IF type = "int" THEN IntCell(IntVal(s))
    ELSE IF s = <<>> THEN NaNCell
    ELSE IF type = "float" THEN FloatCell(TenthsVal(s))
    ELSE StrCell(s)

\* pd.read_csv(OUTPUT_CSV, dtype={"zipcode": str}) of an existing file
ReadCsv(file) ==
    LET type(c) == IF c = ZIPCODE THEN "object"
                   ELSE ColumnType({file.rows[i][c] : i \in 1..Len(file.rows)})
    IN [cols |-> file.header,
        rows |-> [i \in 1..Len(file.rows) |->
                    [c \in Range(file.header) |-> ParseCell(file.rows[i][c], type(c))]]]

\* merged.to_csv(OUTPUT_CSV, index=False)
ToCsv(df) ==
    [exists |-> TRUE,
     header |-> df.cols,
     rows   |-> [i \in 1..Len(df.rows) |->
                   [c \in Range(df.cols) |-> CellText(df.rows[i][c])]]]

\* ---------------------------------------------------------- join_and_save

RECURSIVE ZeroPad(_, _)
ZeroPad(s, width) == IF Len(s) >= width THEN s ELSE ZeroPad(<<"0">> \o s, width)

\* mutant: the key is left as it was read
zfill_AsRead(c) == c

\* Series.str.zfill(5) on one cell: a null stays null
zfill(c) == IF c.t = "str" THEN StrCell(ZeroPad(c.s, ZipWidth)) ELSE c

\* base["zipcode"] = base["zipcode"].str.zfill(5)
ZfillKeys(df) ==
    [df EXCEPT !.rows = [i \in 1..Len(df.rows) |->
                           [df.rows[i] EXCEPT ![ZIPCODE] = zfill(@)]]]

\* mutant: only the fcc_ columns the aggregate has are dropped
DropFcc_OnlyAggregate(df) ==
    LET keep == {c \in Range(df.cols) : c \notin Range(AggCols)}
    IN [cols |-> SelectSeqBy(df.cols, keep),
        rows |-> [i \in 1..Len(df.rows) |-> [c \in keep |-> df.rows[i][c]]]]

\* mutant: the old fcc_ columns are not dropped
DropFcc_KeepAll(df) == df

\* base.drop(columns=[c for c in base.columns if c.startswith("fcc_")])
DropFcc(df) ==
    LET keep == {c \in Range(df.cols) : ~StartsWithFcc(c)}
    IN [cols |-> SelectSeqBy(df.cols, keep),
        rows |-> [i \in 1..Len(df.rows) |-> [c \in keep |-> df.rows[i][c]]]]

\* the aggregate's records whose key equals a base row's key, in order
Matches(agg, key) ==
    IF key.t # "str" THEN <<>>
    ELSE SelectSeqBy(agg, {a \in Range(agg) : a.zipcode = key.s})

\* the value of aggregate column c in record a; the counts are int64 and
\* become float64 when the join leaves a row without a match
AggCell(a, c, allMatched) ==
    LET count(n) == IF allMatched THEN IntCell(n) ELSE FloatCell(10 * n)
    IN CASE c = FCC_ISP -> count(a.fcc_isp_count)
         [] c = FCC_LOC -> count(a.fcc_location_count)
         [] c = FCC_DL  -> Int32Cell(a.fcc_max_dl_mbps)
         [] c = FCC_UL  -> Int32Cell(a.fcc_max_ul_mbps)
         [] OTHER       -> BoolCell(a.avail[c[2]])

\* merge's suffixes: a column other than the key that both frames have is
\* renamed, _x on the left and _y on the right
Overlap(baseCols) == {c \in Range(baseCols) : c \in Range(AggCols)}

LeftName(c, baseCols) == IF c \in Overlap(baseCols) THEN c \o <<"_x">> ELSE c

RightName(c, baseCols) == IF c \in Overlap(baseCols) THEN c \o <<"_y">> ELSE c

MergedCols(baseCols) ==
    [i \in 1..Len(baseCols) |-> LeftName(baseCols[i], baseCols)]
    \o [i \in 1..Len(AggCols) |-> RightName(AggCols[i], baseCols)]

\* mutant: the columns of a row without a match filled with 0
JoinRow_ZeroFill(row, baseCols, a, allMatched) ==
    [c \in Range(MergedCols(baseCols)) |->
        IF \E b \in Range(baseCols) : LeftName(b, baseCols) = c
        THEN row[CHOOSE b \in Range(baseCols) : LeftName(b, baseCols) = c]
        ELSE IF a = <<>> THEN IntCell(0)
        ELSE AggCell(a[1], CHOOSE g \in Range(AggCols) : RightName(g, baseCols) = c, allMatched)]

\* one base row joined to one aggregate record, or to none (a = <<>>)
JoinRow(row, baseCols, a, allMatched) ==
    [c \in Range(MergedCols(baseCols)) |->
        IF \E b \in Range(baseCols) : LeftName(b, baseCols) = c
        THEN row[CHOOSE b \in Range(baseCols) : LeftName(b, baseCols) = c]
        ELSE IF a = <<>> THEN NaNCell
        ELSE AggCell(a[1], CHOOSE g \in Range(AggCols) : RightName(g, baseCols) = c, allMatched)]

RECURSIVE LeftJoinRows_Inner(_, _, _, _)
\* mutant: how="inner", a left row without a match is lost
LeftJoinRows_Inner(rows, baseCols, agg, allMatched) ==
    IF rows = <<>> THEN <<>>
    ELSE LET m == Matches(agg, Head(rows)[ZIPCODE])
         IN [j \in 1..Len(m) |-> JoinRow(Head(rows), baseCols, <<m[j]>>, allMatched)]
            \o LeftJoinRows_Inner(Tail(rows), baseCols, agg, allMatched)

RECURSIVE LeftJoinRows(_, _, _, _)
\* how="left": every left row, once per matching record, or once with nulls
LeftJoinRows(rows, baseCols, agg, allMatched) ==
    IF rows = <<>> THEN <<>>
    ELSE LET m == Matches(agg, Head(rows)[ZIPCODE])
             joined == IF m = <<>> THEN <<JoinRow(Head(rows), baseCols, <<>>, allMatched)>>
                       ELSE [j \in 1..Len(m) |-> JoinRow(Head(rows), baseCols, <<m[j]>>, allMatched)]
         IN joined \o LeftJoinRows(Tail(rows), baseCols, agg, allMatched)

\* base.merge(fcc_agg, on="zipcode", how="left")
Merge(base, agg) ==
    LET allMatched == \A i \in 1..Len(base.rows) : Matches(agg, base.rows[i][ZIPCODE]) # <<>>
    IN [cols |-> MergedCols(base.cols),
        rows |-> LeftJoinRows(base.rows, base.cols, agg, allMatched)]

RECURSIVE IndexOf(_, _)
\* list.index(x), from 1; x is in s
IndexOf(s, x) == IF Head(s) = x THEN 1 ELSE 1 + IndexOf(Tail(s), x)

\* mutant: the fcc_ columns always appended at the end
FinalOrder_Append(cols) ==
    SelectSeqBy(cols, {c \in Range(cols) : ~StartsWithFcc(c)})
    \o SelectSeqBy(cols, {c \in Range(cols) : StartsWithFcc(c)})

\* final_order: the fcc_ columns after insert_after, or at the end
FinalOrder(cols) ==
    LET fcc_cols   == SelectSeqBy(cols, {c \in Range(cols) : StartsWithFcc(c)})
        other_cols == SelectSeqBy(cols, {c \in Range(cols) : ~StartsWithFcc(c)})
    IN IF insert_after \in Range(other_cols)
       THEN LET idx == IndexOf(other_cols, insert_after)
            IN SubSeq(other_cols, 1, idx) \o fcc_cols \o SubSeq(other_cols, idx + 1, Len(other_cols))
       ELSE other_cols \o fcc_cols

\* merged = merged[final_order]
Reorder(df) == [df EXCEPT !.cols = FinalOrder(df.cols)]

\* join_and_save up to the write: the frame to_csv is called on, or the
\* exception that ends the call (read_csv of a missing file, base["zipcode"]
\* of a file without that column)
PrepareMerged(file, agg) ==
    IF ~file.exists THEN [err |-> "FileNotFoundError", df |-> <<>>]
    ELSE IF ZIPCODE \notin Range(file.header) THEN [err |-> "KeyError", df |-> <<>>]
    ELSE [err |-> "", df |-> Reorder(Merge(DropFcc(ZfillKeys(ReadCsv(file))), agg))]

\* ------------------------------------------------------------------ inputs

Z10001 == <<"1", "0", "0", "0", "1">>
Z00501 == <<"0", "0", "5", "0", "1">>
Z11001 == <<"1", "1", "0", "0", "1">>

\* tracts: two of Manhattan, one of Brooklyn, one of Queens, one of Nassau
TractA == <<"36061", "000100">>
TractB == <<"36047", "000200">>
TractC == <<"36061", "000300">>
TractE == <<"36081", "000500">>
TractD == <<"36059", "000400">>

\* cache/ny_tract_to_zcta.json: many-to-one, state-wide, with no entry
\* for TractC
Crosswalk ==
    [t \in {TractA, TractB, TractE, TractD} |->
        IF t = TractA THEN Z10001 ELSE IF t = TractB THEN Z00501
        ELSE IF t = TractE THEN Z10001 ELSE Z11001]

FccRow(brand, loc, dl, ul, tr) ==
    [brand_name |-> brand, location_id |-> loc, dl |-> dl, ul |-> ul,
     block_geoid |-> IF tr = NaN THEN NaN ELSE <<tr[1], tr[2], "1001">>]

Cable1 == FccRow(<<"A">>, <<"L1">>, <<500>>, <<50>>, TractA)
Cable2 == FccRow(<<"B">>, <<"L2">>, NaN, <<20>>, TractA)
\* a Nassau block whose tract is in the crosswalk
Cable3 == FccRow(<<"A">>, <<"L3">>, <<300>>, <<30>>, TractD)
\* a Manhattan block whose tract is not
Cable4 == FccRow(<<"B">>, <<"L2">>, <<100>>, <<30>>, TractC)
Fiber1 == FccRow(<<"A">>, <<"L1">>, <<300>>, NaN, TractB)
Fiber2 == FccRow(NaN, <<"L4">>, NaN, <<30>>, TractE)
Fiber3 == FccRow(<<"B">>, <<"L2">>, NaN, NaN, TractA)
Copper1 == FccRow(<<"C">>, <<"L1">>, <<900>>, <<90>>, TractE)
\* a row without block_geoid
NoBlock == FccRow(<<"A">>, <<"L6">>, <<50>>, <<5>>, NaN)

\* the rows a technology file may hold, with the file they occur in
RowPool ==
    { <<"cable", Cable1>>, <<"cable", Cable2>>, <<"cable", Cable3>>, <<"cable", Cable4>>,
      <<"fiber", Fiber1>>, <<"fiber", Fiber2>>, <<"fiber", Fiber3>>,
      <<"copper", Copper1>> }

RECURSIVE RowsOf(_, _)
\* the rows of a labelled sequence that belong to technology t, in order
RowsOf(s, t) ==
    IF s = <<>> THEN <<>>
    ELSE IF Head(s)[1] = t THEN <<Head(s)[2]>> \o RowsOf(Tail(s), t)
    ELSE RowsOf(Tail(s), t)

FccFile(exists, ok, rows) == [exists |-> exists, ok |-> ok, rows |-> rows]

\* the three files of a labelled sequence; the technologies in `missing`
\* have no file
FilesOf(s, missing) ==
    [t \in Tech |-> FccFile(t \notin missing, TRUE, RowsOf(s, t))]

Input(cache, files, chunksize, runs) ==
    [cacheExists |-> cache, tract_map |-> Crosswalk, files |-> files,
     chunksize |-> chunksize, runs |-> runs]

\* two inputs for the merge stage: one ZIP, and two ZIPs of which one has
\* a leading zero
MergeInputs ==
    { Input(TRUE, FilesOf(<< <<"cable", Cable1>>, <<"cable", Cable2>> >>, {"copper"}), MaxChunk, MaxRuns),
      Input(TRUE, FilesOf(<< <<"cable", Cable1>>, <<"fiber", Fiber1>> >>, {}), MaxChunk, MaxRuns) }

\* the failures: no crosswalk, a file read_csv rejects, nothing to process
EdgeInputs ==
    { Input(FALSE, FilesOf(<< <<"cable", Cable1>> >>, {}), 1, MaxRuns),
      Input(TRUE, [FilesOf(<< <<"cable", Cable1>> >>, {}) EXCEPT !["fiber"].ok = FALSE], 1, MaxRuns),
      Input(TRUE, FilesOf(<<>>, Tech), 1, MaxRuns),
      Input(TRUE, FilesOf(<< <<"cable", Cable1>> >>, {"fiber", "copper"}), 1, MaxRuns),
      Input(TRUE, FilesOf(<< <<"copper", NoBlock>>, <<"copper", Copper1>> >>, {}), 1, MaxRuns) }

Z501   == <<"5", "0", "1">>
Z11201 == <<"1", "1", "2", "0", "1">>

\* header of the file build_dataset writes, placeholders included
HeaderBuilt ==
    <<ZIPCODE, BOROUGH, NEIGHBORHOOD, insert_after,
      FCC_ISP, FCC_DL, FccAvail("fiber"), FccAvail("cable"), UTILITY>>

\* no anchor column, fcc_ columns apart, one of them not in any aggregate
HeaderNoAnchor == <<ZIPCODE, FCC_LEGACY, BOROUGH, NEIGHBORHOOD, UTILITY, FCC_ISP>>

\* no fcc_ column, the anchor last
HeaderPlain == <<ZIPCODE, BOROUGH, NEIGHBORHOOD, UTILITY, insert_after>>

HeaderNoKey == <<BOROUGH, insert_after>>

HeaderNoBorough == <<ZIPCODE, insert_after>>

KeyTexts == {Z10001, Z501, Z11201, <<>>}

PctTexts == {<<>>, <<"0", "7">>, <<"7", ".", "5">>}

\* one line of the base file: its key, its census value, and what its
\* fcc_ cells hold
BaseLine(header, key, pct, stale) ==
    [c \in Range(header) |->
        IF c = ZIPCODE THEN key
        ELSE IF c = insert_after THEN pct
        ELSE IF c = BOROUGH THEN <<"Bronx">>
        ELSE IF c = NEIGHBORHOOD THEN <<"Harlem">>
        ELSE IF c = UTILITY THEN <<"ConEd">>
        ELSE stale]

CsvFile(header, lines) == [exists |-> TRUE, header |-> header, rows |-> lines]

NoFile == [exists |-> FALSE, header |-> <<>>, rows |-> <<>>]

\* what the fcc_ cells of a base file hold: NaN placeholders under the
\* built header, earlier values under the other
Stale(header) == IF header = HeaderBuilt THEN <<>> ELSE <<"9">>

BaseFile(header, ls) ==
    CsvFile(header, [i \in 1..Len(ls) |-> BaseLine(header, ls[i][1], ls[i][2], Stale(header))])

MergeHeaders == {HeaderBuilt, HeaderNoAnchor, HeaderPlain}

DefaultBase ==
    CsvFile(HeaderBuilt,
            << BaseLine(HeaderBuilt, Z10001, <<"7", ".", "5">>, <<>>),
               BaseLine(HeaderBuilt, Z11201, <<>>, <<>>) >>)

EdgeBases ==
    { NoFile, DefaultBase,
      CsvFile(HeaderNoKey, <<BaseLine(HeaderNoKey, <<>>, <<"0", "7">>, <<>>)>>),
      CsvFile(HeaderNoBorough, <<BaseLine(HeaderNoBorough, Z10001, <<"0", "7">>, <<>>)>>) }

\* ------------------------------------------------------------------- state

VARIABLES
    input,      \* the crosswalk, the technology files, chunksize, planned runs
    csv,        \* OUTPUT_CSV on disk
    pc,         \* the position in main
    run,        \* which invocation of main this is
    ti,         \* index in FCC_FILES of the file being processed
    reader,     \* process_fcc_file: chunks and the running counts
    pos,        \* process_fcc_file: rows read so far
    all_dfs,    \* main: the non-empty results
    combined,   \* main: pd.concat(all_dfs)
    fcc_agg,    \* main: the aggregate
    merged,     \* join_and_save: the frame before the write
    err,        \* the exception that ended main, "" when none
    events,     \* what main has done so far in this run
    csvStart,   \* OUTPUT_CSV when this run began
    prev        \* the previous run: the file it began with, its aggregate,
                \* and whether it wrote

vars == <<input, csv, pc, run, ti, reader, pos, all_dfs, combined, fcc_agg,
          merged, err, events, csvStart, prev>>

NoFrame == [cols |-> <<>>, rows |-> <<>>]

\* the locals of main before its first statement
Fresh ==
    /\ pc = "start"
    /\ ti = 1
    /\ reader = NewReader
    /\ pos = 0
    /\ all_dfs = <<>>
    /\ combined = <<>>
    /\ fcc_agg = <<>>
    /\ merged = NoFrame
    /\ err = ""
    /\ events = <<>>

\* main is about to run for the first time
Start ==
    /\ run = 1
    /\ Fresh
    /\ csvStart = csv
    /\ prev = [csv |-> NoFile, agg |-> <<>>, wrote |-> FALSE]

\* every distribution of up to MaxRows pool rows over the files, every
\* chunksize, a file without rows being absent or present and empty; the
\* base file is the default one and main runs once
InitIngest ==
    /\ \E s \in SeqsUpTo(RowPool, MaxRows), c \in 1..MaxChunk :
          \E missing \in SUBSET {t \in Tech : RowsOf(s, t) = <<>>} :
              input = Input(TRUE, FilesOf(s, missing), c, 1)
    /\ csv = DefaultBase
    /\ Start

\* every base file of up to MaxBaseRows lines under each header, with the
\* inputs for the merge stage
InitBases ==
    /\ input \in MergeInputs
    /\ \E h \in MergeHeaders, ls \in SeqsUpTo(KeyTexts \X PctTexts, MaxBaseRows) :
          csv = BaseFile(h, ls)
    /\ Start

InitEdge ==
    /\ input \in EdgeInputs
    /\ csv \in EdgeBases
    /\ Start

Init == InitIngest \/ InitEdge

InitMerge == InitBases \/ InitEdge

\* ----------------------------------------------------------------- actions

tech_label == FCC_FILES[ti]

file == input.files[tech_label]

\* the for loop of main moves to the next file, or leaves the loop
NextFile ==
    IF ti < Len(FCC_FILES)
    THEN ti' = ti + 1 /\ pc' = "files"
    ELSE ti' = ti /\ pc' = "combine"

\* mutant: a missing crosswalk is not an error
LoadCrosswalk_Lenient ==
    /\ pc = "start"
    /\ pc' = "files"
    /\ events' = Append(events, <<"load_tract_zcta_map">>)
    /\ UNCHANGED <<input, csv, run, ti, reader, pos, all_dfs, combined, fcc_agg,
                   merged, err, csvStart, prev>>

\* tract_map = load_tract_zcta_map()
LoadCrosswalk ==
    /\ pc = "start"
    /\ IF input.cacheExists
       THEN pc' = "files" /\ err' = err
       ELSE pc' = "failed" /\ err' = "FileNotFoundError"
    /\ events' = Append(events, <<"load_tract_zcta_map">>)
    /\ UNCHANGED <<input, csv, run, ti, reader, pos, all_dfs, combined, fcc_agg,
                   merged, csvStart, prev>>

\* mutant: a missing technology file ends the run
SkipMissing_Raise ==
    /\ pc = "files"
    /\ ~file.exists
    /\ pc' = "failed"
    /\ err' = "FileNotFoundError"
    /\ events' = Append(events, <<"skip", tech_label>>)
    /\ UNCHANGED <<input, csv, run, ti, reader, pos, all_dfs, combined, fcc_agg,
                   merged, csvStart, prev>>

\* if not path.exists(): log.warning, continue
SkipMissing ==
    /\ pc = "files"
    /\ ~file.exists
    /\ NextFile
    /\ events' = Append(events, <<"skip", tech_label>>)
    /\ UNCHANGED <<input, csv, run, reader, pos, all_dfs, combined, fcc_agg,
                   merged, err, csvStart, prev>>

\* process_fcc_file opens its reader; a file without the columns of
\* usecols makes read_csv raise, and nothing in main catches it
OpenFile ==
    /\ pc = "files"
    /\ file.exists
    /\ IF file.ok
       THEN pc' = "reading" /\ err' = err
       ELSE pc' = "failed" /\ err' = "ValueError"
    /\ reader' = NewReader
    /\ pos' = 0
    /\ events' = Append(events, <<"open", tech_label>>)
    /\ UNCHANGED <<input, csv, run, ti, all_dfs, combined, fcc_agg, merged,
                   csvStart, prev>>

\* one iteration of `for chunk in reader`
ReadChunk ==
    /\ pc = "reading"
    /\ pos < Len(file.rows)
    /\ LET chunk == NextChunk(file.rows, pos, input.chunksize)
       IN /\ reader' = ProcessChunk(reader, chunk, tech_label, input.tract_map)
          /\ pos' = pos + Len(chunk)
    /\ UNCHANGED <<input, csv, pc, run, ti, all_dfs, combined, fcc_agg, merged,
                   err, events, csvStart, prev>>

\* mutant: an empty result ends the run
EndFile_RaiseOnEmpty ==
    /\ pc = "reading"
    /\ pos = Len(file.rows)
    /\ LET df == FileResult(reader)
       IN IF DfEmpty(df)
          THEN all_dfs' = all_dfs /\ pc' = "failed" /\ err' = "ValueError" /\ ti' = ti
          ELSE all_dfs' = Append(all_dfs, df.rows) /\ NextFile /\ err' = err
    /\ events' = Append(events, <<"read", tech_label>>)
    /\ UNCHANGED <<input, csv, run, reader, pos, combined, fcc_agg, merged,
                   csvStart, prev>>

\* the reader is exhausted: process_fcc_file returns, and main keeps the
\* result unless it is empty
EndFile ==
    /\ pc = "reading"
    /\ pos = Len(file.rows)
    /\ LET df == FileResult(reader)
       IN all_dfs' = IF DfEmpty(df) THEN all_dfs ELSE Append(all_dfs, df.rows)
    /\ NextFile
    /\ events' = Append(events, <<"read", tech_label>>)
    /\ UNCHANGED <<input, csv, run, reader, pos, combined, fcc_agg, merged, err,
                   csvStart, prev>>

\* if not all_dfs: log.error, return
NoData ==
    /\ pc = "combine"
    /\ all_dfs = <<>>
    /\ pc' = "done"
    /\ events' = Append(events, <<"no_data">>)
    /\ UNCHANGED <<input, csv, run, ti, reader, pos, all_dfs, combined, fcc_agg,
                   merged, err, csvStart, prev>>

\* combined = pd.concat(all_dfs); fcc_agg = aggregate_by_zcta(combined)
Aggregate ==
    /\ pc = "combine"
    /\ all_dfs # <<>>
    /\ combined' = Concat(all_dfs)
    /\ fcc_agg' = aggregate_by_zcta([hasCols |-> TRUE, rows |-> Concat(all_dfs)]).recs
    /\ pc' = "join"
    /\ events' = Append(events, <<"aggregate_by_zcta">>)
    /\ UNCHANGED <<input, csv, run, ti, reader, pos, all_dfs, merged, err,
                   csvStart, prev>>

\* mutant: the output file is emptied when the preparation fails
JoinPrepare_Truncate ==
    /\ pc = "join"
    /\ LET p == PrepareMerged(csv, fcc_agg)
       IN IF p.err = ""
          THEN merged' = p.df /\ pc' = "write" /\ err' = err /\ csv' = csv
          ELSE merged' = merged /\ pc' = "failed" /\ err' = p.err /\ csv' = CsvFile(<<>>, <<>>)
    /\ events' = Append(events, <<"read_csv">>)
    /\ UNCHANGED <<input, run, ti, reader, pos, all_dfs, combined, fcc_agg,
                   csvStart, prev>>

\* join_and_save from read_csv to merged[final_order]
JoinPrepare ==
    /\ pc = "join"
    /\ LET p == PrepareMerged(csv, fcc_agg)
       IN IF p.err = ""
          THEN merged' = p.df /\ pc' = "write" /\ err' = err
          ELSE merged' = merged /\ pc' = "failed" /\ err' = p.err
    /\ events' = Append(events, <<"read_csv">>)
    /\ UNCHANGED <<input, csv, run, ti, reader, pos, all_dfs, combined, fcc_agg,
                   csvStart, prev>>

\* merged.to_csv(OUTPUT_CSV, index=False)
JoinWrite ==
    /\ pc = "write"
    /\ csv' = ToCsv(merged)
    /\ pc' = "summary"
    /\ events' = Append(events, <<"to_csv">>)
    /\ UNCHANGED <<input, run, ti, reader, pos, all_dfs, combined, fcc_agg,
                   merged, err, csvStart, prev>>

\* the columns the summary of main reads from merged
SummaryCols == {ZIPCODE, BOROUGH, NEIGHBORHOOD, insert_after}

\* the summary printed after the join; a column it names that merged
\* lacks raises KeyError
Summary ==
    /\ pc = "summary"
    /\ IF SummaryCols \subseteq Range(merged.cols)
       THEN pc' = "done" /\ err' = err
       ELSE pc' = "failed" /\ err' = "KeyError"
    /\ UNCHANGED <<input, csv, run, ti, reader, pos, all_dfs, combined, fcc_agg,
                   merged, events, csvStart, prev>>

\* merged.to_csv has been called in this run
Wrote == \E i \in 1..Len(events) : events[i] = <<"to_csv">>

\* main is invoked again on the same input files
Rerun ==
    /\ pc \in {"done", "failed"}
    /\ run < input.runs
    /\ run' = run + 1
    /\ pc' = "start"
    /\ ti' = 1
    /\ reader' = NewReader
    /\ pos' = 0
    /\ all_dfs' = <<>>
    /\ combined' = <<>>
    /\ fcc_agg' = <<>>
    /\ merged' = NoFrame
    /\ err' = ""
    /\ events' = <<>>
    /\ csvStart' = csv
    /\ prev' = [csv |-> csvStart, agg |-> fcc_agg, wrote |-> Wrote]
    /\ UNCHANGED <<input, csv>>

Next ==
    \/ LoadCrosswalk
    \/ SkipMissing
    \/ OpenFile
    \/ ReadChunk
    \/ EndFile
    \/ NoData
    \/ Aggregate
    \/ JoinPrepare
    \/ JoinWrite
    \/ Summary
    \/ Rerun

Spec == Init /\ [][Next]_vars

SpecMerge == InitMerge /\ [][Next]_vars

\* ------------------------------------------------- claims: the aggregate

\* the positions in combined of the rows of ZIP z
RowsOfZip(z) == {j \in 1..Len(combined) : combined[j].zipcode = z}

\* the non-null values among a set of nullable integers
Present(vals) == {v[1] : v \in {w \in vals : w # NaN}}

\* a nullable integer m is the largest of the non-null values, or null when
\* there is none
IsMaxOf(m, vals) ==
    IF Present(vals) = {} THEN m = NaN
    ELSE m # NaN /\ m[1] \in Present(vals) /\ \A x \in Present(vals) : x <= m[1]

\* C1: for every ZIP of the aggregate and every technology tag, the
\* availability flag is true exactly when some input row has that ZIP and
\* that tag, whatever the row's brand and speeds (null ones included).
C1_AvailableIffRow ==
    \A i \in 1..Len(fcc_agg) : \A t \in Tech :
        fcc_agg[i].avail[t] <=>
            \E j \in RowsOfZip(fcc_agg[i].zipcode) : combined[j].tech = t

\* a flag is true although every row of that ZIP and tag has a null brand
\* or a null speed, and another flag of the record is false
C1_Witness ==
    \E i \in 1..Len(fcc_agg) : \E t, u \in Tech :
        /\ fcc_agg[i].avail[t]
        /\ ~fcc_agg[i].avail[u]
        /\ \A j \in RowsOfZip(fcc_agg[i].zipcode) :
              combined[j].tech = t => (combined[j].brand_name = NaN \/ combined[j].dl = NaN)

\* C2: fcc_max_dl_mbps is the largest non-null download speed of the ZIP's
\* rows and null, not 0, when all are null; likewise fcc_max_ul_mbps.
C2_MaxSkipsNull ==
    \A i \in 1..Len(fcc_agg) :
        LET g == RowsOfZip(fcc_agg[i].zipcode)
        IN /\ IsMaxOf(fcc_agg[i].fcc_max_dl_mbps, {combined[j].dl : j \in g})
           /\ IsMaxOf(fcc_agg[i].fcc_max_ul_mbps, {combined[j].ul : j \in g})

\* a ZIP whose download speeds are all null, with two different upload
\* speeds and a null one
C2_Witness ==
    \E i \in 1..Len(fcc_agg) :
        LET g == RowsOfZip(fcc_agg[i].zipcode)
        IN /\ fcc_agg[i].fcc_max_dl_mbps = NaN
           /\ fcc_agg[i].fcc_max_ul_mbps # NaN
           /\ Cardinality({combined[j].ul : j \in g}) >= 3

\* C3: fcc_isp_count is the number of distinct brand names and
\* fcc_location_count the number of distinct location ids among the ZIP's
\* rows of all technology files together; a repeated one counts once.
C3_DistinctCounts ==
    \A i \in 1..Len(fcc_agg) :
        LET g == RowsOfZip(fcc_agg[i].zipcode)
        IN /\ fcc_agg[i].fcc_isp_count =
                 Cardinality({combined[j].brand_name : j \in g} \ {NaN})
           /\ fcc_agg[i].fcc_location_count =
                 Cardinality({combined[j].location_id : j \in g} \ {NaN})

\* two rows of one ZIP from different technology files share their brand
\* and their location id
C3_Witness ==
    \E i \in 1..Len(fcc_agg) :
        \E j, k \in RowsOfZip(fcc_agg[i].zipcode) :
            /\ combined[j].tech # combined[k].tech
            /\ combined[j].brand_name # NaN
            /\ combined[j].brand_name = combined[k].brand_name
            /\ combined[j].location_id = combined[k].location_id
            /\ fcc_agg[i].fcc_isp_count < Cardinality(RowsOfZip(fcc_agg[i].zipcode))

\* ------------------------------------------------ claims: the ingestion

\* the row of the file being read from which a kept row q was made
SourceOf(q) == file.rows[q.index + 1]

KeptRows == Concat(reader.chunks)

InCounty(r) == r.block_geoid # NaN /\ r.block_geoid[1] \in NYC_COUNTY_PREFIXES

HasEntry(r) == r.block_geoid # NaN /\ <<r.block_geoid[1], r.block_geoid[2]>> \in DOMAIN input.tract_map

ZipOf(r) == input.tract_map[<<r.block_geoid[1], r.block_geoid[2]>>]

\* the rows of the technology files that are in a target county and have
\* a crosswalk entry for ZIP z, each with its technology
Contributors(z) ==
    {x \in UNION {{<<t, input.files[t].rows[k]>> : k \in 1..Len(input.files[t].rows)} :
                     t \in {u \in Tech : input.files[u].exists}} :
        InCounty(x[2]) /\ HasEntry(x[2]) /\ ZipOf(x[2]) = z}

\* C4: a row whose county prefix is not one of the five never is among the
\* rows process_fcc_file keeps, and no aggregate record owes anything to
\* it: each record's ZIP, counts, maxima and flags are those of the
\* in-county rows alone, also when the row's tract is in the crosswalk.
C4_CountyFilter ==
    /\ pc = "reading" => \A i \in 1..Len(KeptRows) : InCounty(SourceOf(KeptRows[i]))
    /\ \A i \in 1..Len(fcc_agg) :
          LET c == Contributors(fcc_agg[i].zipcode)
          IN /\ c # {}
             /\ fcc_agg[i].fcc_isp_count = Cardinality({x[2].brand_name : x \in c} \ {NaN})
             /\ fcc_agg[i].fcc_location_count = Cardinality({x[2].location_id : x \in c} \ {NaN})
             /\ IsMaxOf(fcc_agg[i].fcc_max_dl_mbps, {x[2].dl : x \in c})
             /\ IsMaxOf(fcc_agg[i].fcc_max_ul_mbps, {x[2].ul : x \in c})
             /\ \A t \in Tech : fcc_agg[i].avail[t] <=> \E x \in c : x[1] = t

\* an aggregate was built from a file holding a row of another county
\* whose tract is in the crosswalk
C4_Witness ==
    /\ fcc_agg # <<>>
    /\ \E t \in Tech : \E k \in 1..Len(input.files[t].rows) :
          /\ input.files[t].exists
          /\ ~InCounty(input.files[t].rows[k])
          /\ HasEntry(input.files[t].rows[k])

\* C5: every row process_fcc_file keeps has the ZIP the crosswalk gives for
\* its tract, which is not null; an in-county row without a crosswalk
\* entry is not kept, and no aggregate record has a null ZIP.
C5_CrosswalkMiss ==
    /\ pc = "reading" =>
          \A i \in 1..Len(KeptRows) :
              /\ HasEntry(SourceOf(KeptRows[i]))
              /\ KeptRows[i].zipcode = ZipOf(SourceOf(KeptRows[i]))
              /\ KeptRows[i].zipcode # NaN
    /\ \A i \in 1..Len(all_dfs) : \A j \in 1..Len(all_dfs[i]) : all_dfs[i][j].zipcode # NaN
    /\ \A i \in 1..Len(fcc_agg) : fcc_agg[i].zipcode # NaN

\* a file has been read to its end that holds an in-county row without a
\* crosswalk entry, and other rows of it were kept
C5_Witness ==
    /\ pc = "reading"
    /\ pos = Len(file.rows)
    /\ KeptRows # <<>>
    /\ \E k \in 1..Len(file.rows) : InCounty(file.rows[k]) /\ ~HasEntry(file.rows[k])

\* the reader state after the whole file was read as one chunk
OneChunk ==
    IF file.rows = <<>> THEN NewReader
    ELSE ProcessChunk(NewReader, NextChunk(file.rows, 0, Len(file.rows)),
                      tech_label, input.tract_map)

\* C6: whatever the chunk size, the aggregate of what process_fcc_file
\* returns for a file is the aggregate of what it returns when the whole
\* file is one chunk, also when chunks hold no in-county row or no
\* resolved row.
C6_ChunkSizeIndependent ==
    (pc = "reading" /\ pos = Len(file.rows)) =>
        aggregate_by_zcta(FileResult(reader)) = aggregate_by_zcta(FileResult(OneChunk))

\* a file of three rows read one row at a time: one chunk without an
\* in-county row, one without a resolved row, one with a kept row
C6_Witness ==
    /\ pc = "reading"
    /\ pos = Len(file.rows)
    /\ input.chunksize = 1
    /\ Len(file.rows) = 3
    /\ \E k \in 1..3 : ~InCounty(file.rows[k])
    /\ \E k \in 1..3 : InCounty(file.rows[k]) /\ ~HasEntry(file.rows[k])
    /\ \E k \in 1..Len(reader.chunks) : reader.chunks[k] = <<>>
    /\ KeptRows # <<>>

\* ---------------------------------------------------- claims: the merge

\* the aggregate's records with key k
RecordsOf(k) == {a \in Range(fcc_agg) : a.zipcode = k}

\* text k is text t left-padded with zeros to at least ZipWidth characters;
\* the empty cell stays empty
IsPadded(k, t) ==
    IF t = <<>> THEN k = <<>>
    ELSE LET n == IF Len(t) < ZipWidth THEN ZipWidth ELSE Len(t)
         IN /\ Len(k) = n
            /\ \A j \in 1..n : k[j] = IF j <= n - Len(t) THEN "0" ELSE t[j - (n - Len(t))]

IsNumber(s) == IsIntLit(s) \/ IsFloatLit(s)

\* text s denotes the integer n
DenotesInt(s, n) == IsNumber(s) /\ TenthsVal(s) = 10 * n

\* two cells of a column pandas infers the type of hold the same value:
\* the same text, or the same number written differently
SameValue(s, u) == s = u \/ (IsNumber(s) /\ IsNumber(u) /\ TenthsVal(s) = TenthsVal(u))

\* C7: a second run of the merge with the same aggregate leaves the file
\* exactly as the first run left it: rows, column names and their order,
\* and every cell.
C7_MergeIdempotent ==
    (Wrote /\ prev.wrote /\ prev.agg = fcc_agg) => csv = csvStart

\* the second run has written, after a first run that changed a file with
\* old fcc_ columns and with both a matched and an unmatched row
C7_Witness ==
    /\ Wrote
    /\ prev.wrote
    /\ prev.csv # csvStart
    /\ \E c \in Range(prev.csv.header) : StartsWithFcc(c)
    /\ \E i, j \in 1..Len(csv.rows) :
          /\ RecordsOf(csv.rows[i][ZIPCODE]) # {}
          /\ RecordsOf(csv.rows[j][ZIPCODE]) = {}

\* C8, as stated: the output has as many rows as the base file, with the
\* same ZIP keys in the same order.
C8_SameKeys ==
    Wrote =>
        /\ Len(csv.rows) = Len(csvStart.rows)
        /\ \A i \in 1..Len(csv.rows) : csv.rows[i][ZIPCODE] = csvStart.rows[i][ZIPCODE]

\* C8, amended: the output has as many rows as the base file, and row i
\* has the key of base row i left-padded with zeros to five characters;
\* so a record of the aggregate that matches no base row adds no row.
C8_SameRowsPaddedKeys ==
    Wrote =>
        /\ Len(csv.rows) = Len(csvStart.rows)
        /\ \A i \in 1..Len(csv.rows) :
              IsPadded(csv.rows[i][ZIPCODE], csvStart.rows[i][ZIPCODE])

\* written: a base file with a short key and a row without a record, and
\* an aggregate with a record no row has the key of
C8_Witness ==
    /\ Wrote
    /\ \E i \in 1..Len(csvStart.rows) : csvStart.rows[i][ZIPCODE] = Z501
    /\ \E i \in 1..Len(csv.rows) : RecordsOf(csv.rows[i][ZIPCODE]) = {}
    /\ \E a \in Range(fcc_agg) : \A i \in 1..Len(csv.rows) : csv.rows[i][ZIPCODE] # a.zipcode

\* the cell of fcc_ column c holds the value record a has for it
HoldsValueOf(cell, a, c) ==
    CASE c = FCC_ISP -> DenotesInt(cell, a.fcc_isp_count)
      [] c = FCC_LOC -> DenotesInt(cell, a.fcc_location_count)
      [] c = FCC_DL  -> IF a.fcc_max_dl_mbps = NaN THEN cell = <<>>
                        ELSE DenotesInt(cell, a.fcc_max_dl_mbps[1])
      [] c = FCC_UL  -> IF a.fcc_max_ul_mbps = NaN THEN cell = <<>>
                        ELSE DenotesInt(cell, a.fcc_max_ul_mbps[1])
      [] \E t \in Tech : c = FccAvail(t) ->
            cell = IF a.avail[CHOOSE t \in Tech : c = FccAvail(t)] THEN <<"True">> ELSE <<"False">>
      [] OTHER -> FALSE

\* C9: in the output, every fcc_ cell of a row whose ZIP has a record in
\* the aggregate holds that record's value, and every fcc_ cell of any
\* other row is null, whatever the base file held there; the join of an
\* existing file with a zipcode column raises nothing.
C9_FccColumnsFromAggregate ==
    /\ Wrote =>
          \A i \in 1..Len(csv.rows) : \A c \in Range(csv.header) :
              StartsWithFcc(c) =>
                  IF RecordsOf(csv.rows[i][ZIPCODE]) = {} THEN csv.rows[i][c] = <<>>
                  ELSE \A a \in RecordsOf(csv.rows[i][ZIPCODE]) : HoldsValueOf(csv.rows[i][c], a, c)
    /\ (pc = "failed" /\ events # <<>> /\ events[Len(events)] = <<"read_csv">>) =>
          (~csv.exists \/ ZIPCODE \notin Range(csv.header))

\* written: the base file held a value in an fcc_ column both for a row
\* whose ZIP has a record and for a row whose ZIP has none
C9_Witness ==
    /\ Wrote
    /\ \E c \in Range(csvStart.header) : \E i, j \in 1..Len(csv.rows) :
          /\ StartsWithFcc(c)
          /\ csvStart.rows[i][c] # <<>>
          /\ csvStart.rows[j][c] # <<>>
          /\ RecordsOf(csv.rows[i][ZIPCODE]) # {}
          /\ RecordsOf(csv.rows[j][ZIPCODE]) = {}

\* C10, as stated: every column of the base file whose name does not start
\* with fcc_ is in the output with the same value in every row.
C10_OtherColumnsSame ==
    Wrote =>
        \A c \in Range(csvStart.header) :
            ~StartsWithFcc(c) =>
                /\ c \in Range(csv.header)
                /\ Len(csv.rows) = Len(csvStart.rows)
                /\ \A i \in 1..Len(csv.rows) :
                      IF c = ZIPCODE THEN csv.rows[i][c] = csvStart.rows[i][c]
                      ELSE SameValue(csv.rows[i][c], csvStart.rows[i][c])

\* C10, amended: every such column other than zipcode is in the output
\* with the same value in every row; the zipcode column is there with each
\* key left-padded with zeros to five characters.
C10_OtherColumnsSameKeyPadded ==
    Wrote =>
        \A c \in Range(csvStart.header) :
            ~StartsWithFcc(c) =>
                /\ c \in Range(csv.header)
                /\ Len(csv.rows) = Len(csvStart.rows)
                /\ \A i \in 1..Len(csv.rows) :
                      IF c = ZIPCODE THEN IsPadded(csv.rows[i][c], csvStart.rows[i][c])
                      ELSE SameValue(csv.rows[i][c], csvStart.rows[i][c])

\* written: a row with a short key, and a census cell that is written
\* differently than it was read
C10_Witness ==
    /\ Wrote
    /\ insert_after \in Range(csvStart.header)
    /\ \E i \in 1..Len(csv.rows) :
          /\ csvStart.rows[i][ZIPCODE] = Z501
          /\ csv.rows[i][insert_after] # csvStart.rows[i][insert_after]
    /\ \E i \in 1..Len(csv.rows) : IsFloatLit(csvStart.rows[i][insert_after])

\* ------------------------------------------------ claims: the column order

\* the positions of the fcc_ columns in header h
FccPositions(h) == {i \in 1..Len(h) : StartsWithFcc(h[i])}

\* the columns of header h that do not start with fcc_, in order
OtherColumns(h) == SelectSeqBy(h, {c \in Range(h) : ~StartsWithFcc(c)})

\* C11: in the output the fcc_ columns are one contiguous block that
\* starts right after census_no_internet_pct, the other columns keep the
\* order they had in the base file, and without a census_no_internet_pct
\* column in the base file the fcc_ block comes after all other columns.
C11_FccBlockAfterAnchor ==
    Wrote =>
        LET h == csv.header
            P == FccPositions(h)
        IN /\ P # {}
           /\ \A i, j \in P : \A k \in i..j : k \in P
           /\ OtherColumns(h) = OtherColumns(csvStart.header)
           /\ IF insert_after \in Range(csvStart.header)
              THEN \E i \in P : i > 1 /\ h[i - 1] = insert_after
              ELSE Len(h) \in P

\* written: the base file had the anchor column with another column after
\* it, and that column now follows the fcc_ block
C11_Witness ==
    /\ Wrote
    /\ insert_after \in Range(csvStart.header)
    /\ \E i \in 1..Len(csv.header) :
          /\ ~StartsWithFcc(csv.header[i])
          /\ \A j \in FccPositions(csv.header) : j < i

\* C12: the fcc_ columns of the output are exactly the fcc_ columns of the
\* aggregate, each once; an fcc_ column the base file had and the aggregate
\* has not is gone, and no placeholder column stands beside a new one.
C12_FullReplace ==
    Wrote =>
        LET h == csv.header
            P == FccPositions(h)
        IN /\ {h[i] : i \in P} = Range(AggCols)
           /\ \A i, j \in P : h[i] = h[j] => i = j
           /\ \A c \in Range(csvStart.header) :
                 (StartsWithFcc(c) /\ c \notin Range(AggCols)) => c \notin Range(h)

\* written: the base file had an fcc_ column of the aggregate and one the
\* aggregate has not
C12_Witness ==
    /\ Wrote
    /\ FCC_LEGACY \in Range(csvStart.header)
    /\ \E c \in Range(csvStart.header) : c \in Range(AggCols)

\* ------------------------------------------------ claims: the failures

\* a technology file has been opened or read in this run
TouchedFccFile == \E i \in 1..Len(events) : events[i][1] \in {"open", "read"}

\* join_and_save has been entered in this run
TouchedOutput == \E i \in 1..Len(events) : events[i][1] \in {"read_csv", "to_csv"}

\* C13: without the crosswalk file a run of main ends in the
\* FileNotFoundError of load_tract_zcta_map, with no technology file
\* opened and the output file neither read nor written, so that the
\* output file is as it was.
C13_MissingCrosswalk ==
    (~input.cacheExists /\ pc # "start") =>
        /\ pc = "failed"
        /\ err = "FileNotFoundError"
        /\ events = << <<"load_tract_zcta_map">> >>
        /\ ~TouchedFccFile
        /\ ~TouchedOutput
        /\ csv = csvStart

\* the run has failed for want of the crosswalk, with a technology file
\* and an output file in place
C13_Witness ==
    /\ ~input.cacheExists
    /\ pc = "failed"
    /\ csv.exists
    /\ csv.rows # <<>>
    /\ \E t \in Tech : input.files[t].exists /\ input.files[t].rows # <<>>

\* the technologies without a file
MissingTechs == {t \in Tech : ~input.files[t].exists}

\* the file of technology t is there and has a row in a target county
\* whose tract is in the crosswalk
YieldsRows(t) ==
    /\ input.files[t].exists
    /\ \E k \in 1..Len(input.files[t].rows) :
          InCounty(input.files[t].rows[k]) /\ HasEntry(input.files[t].rows[k])

\* the output file can be joined: it is there and has a zipcode column
Joinable(f) == f.exists /\ ZIPCODE \in Range(f.header)

Aggregated == \E i \in 1..Len(events) : events[i] = <<"aggregate_by_zcta">>

\* C14: with one or two technology files missing, the others readable and
\* one of them yielding resolved rows, main passes each missing file
\* without opening it and without raising, a run on a joinable output file
\* ends only after the aggregate was built and the merged output written,
\* and every record of the aggregate has the flag of each missing
\* technology false.
C14_MissingFilesSkipped ==
    ( /\ input.cacheExists
      /\ Cardinality(MissingTechs) \in {1, 2}
      /\ \A t \in Tech \ MissingTechs : input.files[t].ok
      /\ \E t \in Tech : YieldsRows(t) ) =>
        /\ \A i \in 1..Len(events) : events[i][1] = "open" => events[i][2] \notin MissingTechs
        /\ (pc = "failed" /\ Joinable(csvStart)) => Wrote
        /\ (pc = "done" /\ Joinable(csvStart)) => (Aggregated /\ Wrote)
        /\ Aggregated =>
              /\ fcc_agg # <<>>
              /\ \A a \in Range(fcc_agg) : \A t \in MissingTechs : ~a.avail[t]

\* main is done and has written, two technologies had a file of which one
\* gave all the rows, and a record has the flag of a present one true
C14_Witness ==
    /\ pc = "done"
    /\ Wrote
    /\ Cardinality(MissingTechs) = 1
    /\ \E t \in Tech \ MissingTechs : input.files[t].rows = <<>>
    /\ \E a \in Range(fcc_agg) : \E t \in Tech : a.avail[t]

\* C15: when no technology file yields a resolved row, each being missing
\* or readable without such a row, main does not raise, ends with the
\* error log after the loop, calls neither aggregate_by_zcta nor
\* join_and_save, and the output file is neither read nor written.
C15_NoDataNoMerge ==
    ( /\ input.cacheExists
      /\ \A t \in Tech : ~YieldsRows(t)
      /\ \A t \in Tech \ MissingTechs : input.files[t].ok ) =>
        /\ pc # "failed"
        /\ ~Aggregated
        /\ ~TouchedOutput
        /\ csv = csvStart
        /\ pc = "done" => events[Len(events)] = <<"no_data">>

\* main has returned after the error log, having read a file whose rows
\* are all outside the counties or without a crosswalk entry, with an
\* output file in place
C15_Witness ==
    /\ pc = "done"
    /\ events[Len(events)] = <<"no_data">>
    /\ \E i \in 1..Len(events) : events[i][1] = "read"
    /\ \E t \in Tech : input.files[t].exists /\ input.files[t].rows # <<>>
    /\ csv.exists

\* process_fcc_file has been entered for technology t in this run
Opened(t) == \E i \in 1..Len(events) : events[i] = <<"open", t>>

\* C16: a failure while ingesting one technology's file does not abort
\* the others: a run that has ended has entered process_fcc_file for every
\* technology file there is, and has built the aggregate when a readable
\* file yields resolved rows.
C16_FailureIsolated ==
    (input.cacheExists /\ pc \in {"done", "failed"}) =>
        /\ \A t \in Tech : input.files[t].exists => Opened(t)
        /\ (\E t \in Tech : YieldsRows(t) /\ input.files[t].ok) => Aggregated

\* C17: the output file changes only by the write of join_and_save, which
\* writes the frame that reading, dropping, joining and reordering the
\* file as it was have produced; when one of those steps fails, on a file
\* that is missing or has no zipcode column, the exception ends main and
\* the file is as it was.
C17_WriteAfterPrepare ==
    /\ ~Wrote => csv = csvStart
    /\ Wrote =>
          /\ PrepareMerged(csvStart, fcc_agg).err = ""
          /\ merged = PrepareMerged(csvStart, fcc_agg).df
          /\ csv = ToCsv(merged)
    /\ (pc = "failed" /\ events[Len(events)] = <<"read_csv">>) =>
          /\ err \in {"FileNotFoundError", "KeyError"}
          /\ ~Wrote
          /\ csv = csvStart

\* join_and_save has failed on an output file that is there, with rows,
\* but without a zipcode column
C17_Witness ==
    /\ pc = "failed"
    /\ events[Len(events)] = <<"read_csv">>
    /\ csv.exists
    /\ csv.rows # <<>>

\* --------------------------------------------- claims: one record per ZIP

\* the ZIPs the crosswalk maps to
CrosswalkZips == {input.tract_map[t] : t \in DOMAIN input.tract_map}

\* C18: the aggregate has exactly one record per distinct ZIP of its input
\* rows: no two records share a ZIP, every ZIP of a row has a record, and
\* a ZIP for which no technology file has a resolved row has none.
C18_OneRecordPerZip ==
    Aggregated =>
        /\ \A i, j \in 1..Len(fcc_agg) : fcc_agg[i].zipcode = fcc_agg[j].zipcode => i = j
        /\ {fcc_agg[i].zipcode : i \in 1..Len(fcc_agg)} = {combined[j].zipcode : j \in 1..Len(combined)}
        /\ \A z \in CrosswalkZips : Contributors(z) = {} => RecordsOf(z) = {}

\* aggregated: two rows share a ZIP, a second ZIP has a record, and a ZIP
\* of the crosswalk has no resolved row
C18_Witness ==
    /\ Aggregated
    /\ \E i, j \in 1..Len(combined) : i # j /\ combined[i].zipcode = combined[j].zipcode
    /\ Len(fcc_agg) >= 2
    /\ \E z \in CrosswalkZips : Contributors(z) = {}

\* ------------------------------------- claims: a file without resolved rows

\* the file of technology t is there, readable, and none of its rows is
\* in a target county with a tract of the crosswalk
Barren(t) == input.files[t].exists /\ input.files[t].ok /\ ~YieldsRows(t)

\* the files, those without a resolved row taken away
WithoutBarren ==
    [t \in Tech |-> IF Barren(t) THEN FccFile(FALSE, TRUE, <<>>) ELSE input.files[t]]

\* what process_fcc_file returns for the rows of a file read as one chunk
WholeResult(rows, t) ==
    FileResult(IF rows = <<>> THEN NewReader
               ELSE ProcessChunk(NewReader, NextChunk(rows, 0, Len(rows)), t, input.tract_map)).rows

\* the aggregate main builds from the files fs
RunAggregate(fs) ==
    LET used == SelectSeqBy(FCC_FILES, {t \in Tech : fs[t].exists /\ WholeResult(fs[t].rows, t) # <<>>})
    IN aggregate_by_zcta([hasCols |-> TRUE,
                          rows |-> Concat([i \in 1..Len(used) |-> WholeResult(fs[used[i]].rows, used[i])])]).recs

\* C19: a technology file that is there but has no row surviving the
\* county filter and the crosswalk makes process_fcc_file return an empty
\* result and nothing raise, and when another file yields resolved rows
\* the aggregate and the written output are those of the run in which
\* that file is missing.
C19_BarrenFileAsMissing ==
    ( /\ input.cacheExists
      /\ \A t \in Tech \ MissingTechs : input.files[t].ok
      /\ \E t \in Tech : Barren(t)
      /\ \E t \in Tech : YieldsRows(t) ) =>
        /\ pc = "failed" => TouchedOutput
        /\ (pc = "reading" /\ pos = Len(file.rows) /\ Barren(tech_label)) => DfEmpty(FileResult(reader))
        /\ Aggregated => fcc_agg = RunAggregate(WithoutBarren)
        /\ Wrote => csv = ToCsv(PrepareMerged(csvStart, RunAggregate(WithoutBarren)).df)

\* written: a file with rows, all outside the counties or without a
\* crosswalk entry, next to a file with resolved rows
C19_Witness ==
    /\ Wrote
    /\ \E t \in Tech : Barren(t) /\ input.files[t].rows # <<>>
    /\ \E t \in Tech : YieldsRows(t)

\* ------------------------------------------------ claims: the padded key

\* C20: every ZIP key of the base file is left-padded with zeros to at
\* least five characters before the join: in the output each row that has
\* a key has it padded and at least five characters long, and a row whose
\* stored key is shorter holds the values of the record keyed by the
\* padded form. (A row with an empty zipcode cell has no key; the cell
\* stays empty.)
C20_KeysPadded ==
    Wrote =>
        /\ Len(csv.rows) = Len(csvStart.rows)
        /\ \A i \in 1..Len(csv.rows) :
              LET stored == csvStart.rows[i][ZIPCODE]
                  key    == csv.rows[i][ZIPCODE]
              IN stored # <<>> =>
                    /\ IsPadded(key, stored)
                    /\ Len(key) >= ZipWidth
                    /\ \A a \in Range(fcc_agg) :
                          IsPadded(a.zipcode, stored) =>
                              \A c \in Range(AggCols) : HoldsValueOf(csv.rows[i][c], a, c)

\* written: a base row stored with the key 501, and the aggregate has a
\* record for 00501
C20_Witness ==
    /\ Wrote
    /\ RecordsOf(Z00501) # {}
    /\ \E i \in 1..Len(csv.rows) :
          /\ csvStart.rows[i][ZIPCODE] = Z501
          /\ csv.rows[i][FCC_ISP] # <<>>

\* ------------------------------------------- claims: the running counts

\* the positions in the file being read of the rows that are in a target
\* county and have a crosswalk entry
Surviving == {k \in 1..Len(file.rows) : InCounty(file.rows[k]) /\ HasEntry(file.rows[k])}

\* C21: while process_fcc_file reads, mapped_rows <= nyc_rows <=
\* total_rows after every chunk; when the reader is exhausted total_rows
\* is the number of rows of the file, mapped_rows the number of rows
\* returned, the returned rows are the surviving rows of the file in file
\* order, and each carries the technology label of the call.
C21_RunningCounts ==
    pc = "reading" =>
        /\ reader.mapped_rows <= reader.nyc_rows
        /\ reader.nyc_rows <= reader.total_rows
        /\ reader.total_rows = pos
        /\ pos = Len(file.rows) =>
              LET out == FileResult(reader).rows
              IN /\ reader.total_rows = Len(file.rows)
                 /\ Len(out) = reader.mapped_rows
                 /\ Len(out) = Cardinality(Surviving)
                 /\ \A i \in 1..Len(out) :
                       LET k == KeptRows[i].index + 1
                       IN /\ k \in Surviving
                          /\ i < Len(out) => k < KeptRows[i + 1].index + 1
                          /\ out[i].brand_name = file.rows[k].brand_name
                          /\ out[i].location_id = file.rows[k].location_id
                          /\ out[i].dl = file.rows[k].dl
                          /\ out[i].ul = file.rows[k].ul
                          /\ out[i].zipcode = ZipOf(file.rows[k])
                          /\ out[i].tech = tech_label

\* the reader is exhausted on a file with a row outside the counties, a
\* row without a crosswalk entry and a row that is returned
C21_Witness ==
    /\ pc = "reading"
    /\ pos = Len(file.rows)
    /\ 1 <= reader.mapped_rows
    /\ reader.mapped_rows < reader.nyc_rows
    /\ reader.nyc_rows < reader.total_rows

\* ----------------------------------------- claims: some technology is there

\* the technologies record a has the flag of set
FlagsOf(a) == {t \in Range(AggTechs) : a.avail[t]}

\* C22: every record of an aggregate main has built has at least one of
\* fcc_cable_available, fcc_fiber_available, fcc_copper_available true,
\* every row of combined carrying a label of FCC_FILES.
C22_SomeTechAvailable ==
    Aggregated =>
        /\ \A j \in 1..Len(combined) : combined[j].tech \in Range(FCC_FILES)
        /\ \A a \in Range(fcc_agg) : FlagsOf(a) # {}

\* aggregated from the rows of two files: a record whose rows all come
\* from one of them
C22_Witness ==
    /\ Aggregated
    /\ Len(all_dfs) = 2
    /\ \E a \in Range(fcc_agg) : Cardinality(FlagsOf(a)) = 1

\* --------------------------------------------- claims: the order of steps

\* the order the technologies are to be processed in
ClaimedOrder == <<"cable", "fiber", "copper">>

\* the place of an event in the order of steps: the crosswalk, the three
\* technologies, the aggregate (or the error log in its place), the
\* reading of the output file, its writing
Stage(e) ==
    CASE e[1] = "load_tract_zcta_map" -> 0
      [] e[1] \in {"skip", "open", "read"} -> IndexOf(ClaimedOrder, e[2])
      [] e[1] \in {"no_data", "aggregate_by_zcta"} -> 4
      [] e[1] = "read_csv" -> 5
      [] OTHER -> 6

\* C23: in every run of main the crosswalk is loaded first, the
\* technology files are then taken one at a time in the order cable,
\* fiber, copper, each opened before it is read and read to its end before
\* the next is touched, the aggregate is built once after them, and the
\* output file is written after that, at most once, and only when every
\* technology file there is has been read to its end.
C23_StepOrder ==
    /\ pc # "start" => events # <<>> /\ events[1] = <<"load_tract_zcta_map">>
    /\ \A i, j \in 1..Len(events) :
          /\ i < j => Stage(events[i]) <= Stage(events[j])
          /\ events[i] = events[j] => i = j
          /\ (i < j /\ Stage(events[i]) = Stage(events[j]) /\ Stage(events[i]) \in 1..3) =>
                (events[i][1] = "open" /\ events[j][1] = "read" /\ j = i + 1)
    /\ pc = "reading" => events[Len(events)] = <<"open", tech_label>>
    /\ Wrote =>
          /\ Aggregated
          /\ \A t \in Tech : input.files[t].exists =>
                \E i \in 1..Len(events) : events[i] = <<"read", t>>
    /\ ~Wrote => csv = csvStart

\* main is done and has written after reading two files with rows and
\* passing a missing one
C23_Witness ==
    /\ pc = "done"
    /\ Wrote
    /\ Len(all_dfs) = 2
    /\ \E i \in 1..Len(events) : events[i][1] = "skip"

====
